---- MODULE Spec2Model ----
(***************************************************************************)
(* A model of amir-wyvern/linkedin_scrapper:                               *)
(*   - PersistentBrowser (persistent_browser.py): start / save_state /     *)
(*     close over a browser, a context, a page and the storage-state file; *)
(*   - Scrapper.human_like_behavior (linkedin_scrapper.py): the scroll     *)
(*     loop with its stagnation counter and periodic save_state;           *)
(*   - save_single_connection and the item loop of                         *)
(*     get_profile_connections over the connections table of models.py;    *)
(*   - Scrapper.extract_connection_count, the header-text parser.          *)
(* Each part has its own specification; the variables of the other parts   *)
(* stay at their initial values.                                           *)
(***************************************************************************)
EXTENDS Integers, Sequences, FiniteSets, TLC

VARIABLES
    \* ---- PersistentBrowser / Scrapper.__main__ ----
    pc,               \* position of the __main__ block of linkedin_scrapper.py
    storage_file,     \* the file at storage_state_path: "missing" | "valid" | "corrupt"
    file_at_start,    \* history: storage_file as start() found it
    browser,          \* self.browser: "None" | "open" | "closed"
    context,          \* self.context: "None" | "open" | "closed"
    page,             \* self.page:    "None" | "open" | "closed"
    ctx_kind,         \* how the context was made: "none" | "anonymous" | "restored"
    close_calls,      \* history: the resources whose close() was called by close()
    save_attempted,   \* history: close() called save_state()
    error,            \* the exception that reached __main__: "none" | "start" | "save_state" | "close"
    \* ---- Scrapper.human_like_behavior ----
    last_height,      \* local last_height
    all_loaded,       \* local all_loaded
    scroll_attempts,  \* local scroll_attempts
    cycles,           \* history: iterations of the while loop completed or aborted
    prev_height,      \* history: the page height read in the previous cycle
    eq_hist,          \* history: for the last cycles, whether the height equalled the previous cycle's
    monotone,         \* history: the height strictly increased in every cycle so far
    saved_now,        \* history: the latest cycle invoked save_state()
    \* ---- the connections table and save_single_connection ----
    store,            \* the committed rows of table connections
    now,              \* the database clock, func.now()
    last_call,        \* history: the latest call of save_single_connection
    prev_call,        \* history: the call before it
    \* ---- get_profile_connections, from "connections = []" on ----
    x_pc,             \* "idle" | "loop_top" | "in_page" | "page_end" | "done"
    connections,      \* the list connections
    total_saved,      \* local total_saved
    failed_saves,     \* local failed_saves
    current_page,     \* local current_page
    connections_count,\* local connections_count, parsed from the profile header
    items_left,       \* elements of connection_elements not yet visited
    extract_log,      \* history: the connection dicts built, in order
    save_log,         \* history: the calls of save_single_connection: [rec, ret]
    last_raised,      \* history: the step of the latest call that raised, or "none"
    \* ---- the connection-count parsers ----
    p_pc,             \* "idle" | "ready" | "parsed"
    text,             \* the header text, a sequence of characters
    parser,           \* which parser ran
    count_result,     \* the count the parser left
    parse_raised,     \* an exception left the parser
    \* ---- Scrapper.get_connections and the page loaders ----
    n_pc,             \* "idle" | "load" | "check" | "header" | "out"
    n_route,          \* "none" | "direct" | "anywhere" | "main"
    n_log             \* history: the waits for the connections list and the reloads

browserVars == <<pc, storage_file, file_at_start, browser, context, page, ctx_kind,
                 close_calls, save_attempted, error>>
scrollVars  == <<last_height, all_loaded, scroll_attempts, cycles, prev_height,
                 eq_hist, monotone, saved_now>>
storeVars   == <<store, now, last_call, prev_call>>
extractVars == <<x_pc, connections, total_saved, failed_saves, current_page,
                 connections_count, items_left, extract_log, save_log, last_raised>>
parseVars   == <<p_pc, text, parser, count_result, parse_raised>>
navVars     == <<n_pc, n_route, n_log>>
restOfScrapper == <<storeVars, extractVars, parseVars, navVars>>
vars == <<browserVars, scrollVars, storeVars, extractVars, parseVars, navVars>>

(***************************************************************************)
(* Bounds of the model.                                                    *)
(***************************************************************************)
MaxCycles == 21      \* scroll cycles explored (one more than the intended ceiling)
MaxHeight == 21      \* page heights are 0..MaxHeight

Heights == 0..MaxHeight

(***************************************************************************)
(* PersistentBrowser                                                       *)
(***************************************************************************)
FileStates == {"missing", "valid", "corrupt"}

\* os.path.exists(self.storage_state_path)
PathExists(f) == f # "missing"

\* a mutant of ContextParams: the stored state is never handed to new_context
ContextParams_NeverRestore(f) == "empty"

\* context_params of start(): {"storage_state": path} when the file exists, else {}
ContextParams(f) == IF PathExists(f) THEN "storage_state" ELSE "empty"

\* self.browser.new_context(**context_params): with no storage_state a fresh
\* anonymous context; with one, the file is read and parsed, which raises when
\* the file is corrupt or unreadable.  start() has no handler around it.
NewContext(params, f) ==
    IF params = "empty" THEN [raises |-> FALSE, kind |-> "anonymous"]
    ELSE IF f = "valid" THEN [raises |-> FALSE, kind |-> "restored"]
    ELSE [raises |-> TRUE, kind |-> "none"]

BrowserInit ==
    /\ pc = "new"
    /\ storage_file \in FileStates
    /\ file_at_start = "unread"
    /\ browser = "None" /\ context = "None" /\ page = "None"
    /\ ctx_kind = "none"
    /\ close_calls = {}
    /\ save_attempted = FALSE
    /\ error = "none"

\* the browser part at rest, for the specifications of the other parts
BrowserIdle ==
    /\ pc = "new"
    /\ storage_file = "missing"
    /\ file_at_start = "unread"
    /\ browser = "None" /\ context = "None" /\ page = "None"
    /\ ctx_kind = "none"
    /\ close_calls = {}
    /\ save_attempted = FALSE
    /\ error = "none"

ScrollIdle ==
    /\ last_height = 0
    /\ all_loaded = FALSE
    /\ scroll_attempts = 0
    /\ cycles = 0
    /\ prev_height = 0
    /\ eq_hist = <<>>
    /\ monotone = TRUE
    /\ saved_now = FALSE

\* get_connections() not running
NavIdle ==
    /\ n_pc = "idle"
    /\ n_route = "none"
    /\ n_log = <<>>

\* PersistentBrowser.start(), called from __main__'s try block
Start ==
    /\ pc = "new"
    /\ LET nc == NewContext(ContextParams(storage_file), storage_file) IN
        /\ file_at_start' = storage_file
        /\ browser' = "open"
        /\ IF nc.raises
              THEN /\ context' = "None" /\ page' = "None"
                   /\ ctx_kind' = "none"
                   /\ error' = "start"
                   /\ pc' = "raised"
              ELSE /\ context' = "open" /\ page' = "open"
                   /\ ctx_kind' = nc.kind
                   /\ error' = "none"
                   /\ pc' = "ready"
    /\ UNCHANGED <<storage_file, close_calls, save_attempted, scrollVars, restOfScrapper>>

\* PersistentBrowser.save_state(): writes the file when there is a context.
\* The write itself can fail (ok = FALSE), and then storage_state() raises.
SaveStateWrites(ctx) == ctx # "None"

(***************************************************************************)
(* Scrapper.human_like_behavior                                            *)
(***************************************************************************)
max_scroll_attempts == 20

\* a mutant of AllLoadedAfter: one more unchanged cycle is needed
AllLoadedAfter_OffByOne(n) == n >= 4

\* a mutant of AllLoadedAfter: two unchanged cycles are enough
AllLoadedAfter_Premature(n) == n >= 2

\* "if scroll_attempts >= 3: all_loaded = True"
AllLoadedAfter(n) == n >= 3

\* the while condition: "not all_loaded and scroll_attempts < max_scroll_attempts"
LoopContinues(loaded, n) == ~loaded /\ n < max_scroll_attempts

\* "if scroll_attempts % 5 == 0: self.save_state()"
SavesState(n) == n % 5 = 0

\* the last k entries of a sequence
LastK(s, k) == IF Len(s) <= k THEN s ELSE SubSeq(s, Len(s) - k + 1, Len(s))

\* get_connections() reaches human_like_behavior(): the lines before the loop
BeginScroll ==
    /\ pc = "ready"
    /\ \E h \in Heights :
        /\ last_height' = h
        /\ prev_height' = h
    /\ all_loaded' = FALSE
    /\ scroll_attempts' = 0
    /\ cycles' = 0
    /\ eq_hist' = <<>>
    /\ monotone' = TRUE
    /\ saved_now' = FALSE
    /\ pc' = "scrolling"
    /\ UNCHANGED <<storage_file, file_at_start, browser, context, page, ctx_kind,
                   close_calls, save_attempted, error, restOfScrapper>>

\* one iteration of the while loop, the re-test of its condition included
ScrollCycle ==
    /\ pc = "scrolling"
    /\ cycles < MaxCycles
    /\ \E new_height \in Heights, ok \in BOOLEAN :
        LET same    == new_height = last_height
            n       == IF same THEN scroll_attempts + 1 ELSE 0
            loaded  == IF same /\ AllLoadedAfter(n) THEN TRUE ELSE all_loaded
            saves   == SavesState(n)
            writes  == saves /\ SaveStateWrites(context)
        IN  /\ (~writes => ok)
            /\ scroll_attempts' = n
            /\ all_loaded' = loaded
            /\ last_height' = IF same THEN last_height ELSE new_height
            /\ cycles' = cycles + 1
            /\ prev_height' = new_height
            /\ eq_hist' = LastK(Append(eq_hist, new_height = prev_height), 3)
            /\ monotone' = (monotone /\ new_height > prev_height)
            /\ saved_now' = saves
            /\ storage_file' = IF writes /\ ok THEN "valid" ELSE storage_file
            /\ IF writes /\ ~ok
                  THEN pc' = "raised" /\ error' = "save_state"
                  ELSE /\ pc' = IF LoopContinues(loaded, n) THEN "scrolling" ELSE "loaded"
                       /\ error' = error
    /\ UNCHANGED <<file_at_start, browser, context, page, ctx_kind,
                   close_calls, save_attempted, restOfScrapper>>

(***************************************************************************)
(* PersistentBrowser.close(), from __main__'s finally block                *)
(***************************************************************************)
Resources == {"page", "context", "browser"}

Close ==
    /\ pc \in {"loaded", "returned", "raised"}
    /\ \E fs, fp, fc, fb \in BOOLEAN :
        LET writes     == SaveStateWrites(context)
            save_fails == writes /\ fs
            \* the finally block: three calls in a row, none of them guarded
            page_call  == page # "None"
            page_fails == page_call /\ fp
            ctx_call   == ~page_fails /\ context # "None"
            ctx_fails  == ctx_call /\ fc
            br_call    == ~page_fails /\ ~ctx_fails /\ browser # "None"
            br_fails   == br_call /\ fb
        IN  /\ (~writes => ~fs) /\ (~page_call => ~fp)
            /\ (~ctx_call => ~fc) /\ (~br_call => ~fb)
            /\ save_attempted' = TRUE
            /\ storage_file' = IF writes /\ ~fs THEN "valid" ELSE storage_file
            /\ page'    = IF page_call /\ ~fp THEN "closed" ELSE page
            /\ context' = IF ctx_call /\ ~fc THEN "closed" ELSE context
            /\ browser' = IF br_call /\ ~fb THEN "closed" ELSE browser
            /\ close_calls' = {r \in Resources :
                                  \/ r = "page" /\ page_call
                                  \/ r = "context" /\ ctx_call
                                  \/ r = "browser" /\ br_call}
            /\ error' = IF page_fails \/ ctx_fails \/ br_fails THEN "close"
                        ELSE IF save_fails THEN "save_state"
                        ELSE error
    /\ pc' = "closed"
    /\ UNCHANGED <<file_at_start, ctx_kind, scrollVars, restOfScrapper>>


(***************************************************************************)
(* models.py: table connections; save_single_connection                   *)
(***************************************************************************)
MaxClock == 2        \* the database clock runs over 0..MaxClock

NA == <<"N/A">>      \* the sentinel "N/A"; a text is a sequence of tokens
NoRow == [id |-> 0]  \* .first() found nothing
NoCall == [at |-> -1]

\* the columns of class Connection
ConnectionColumns ==
    {"id", "name", "occupation", "profile_url", "first_seen", "last_updated"}

\* the keyword arguments of Connection(...) in save_single_connection
ConstructorKwargs == {"name", "occupation", "profile_url", "source_profile"}

\* the declarative constructor raises TypeError for a keyword argument that
\* is no attribute of the mapped class
ConstructorRaises == ~(ConstructorKwargs \subseteq ConnectionColumns)

\* session.query(Connection).filter_by(profile_url=...).first()
First(st, url) ==
    LET found == {r \in st : r.profile_url = url}
    IN  IF found = {} THEN NoRow ELSE CHOOSE r \in found : TRUE

\* the primary key given to an inserted row
NextId(st) ==
    IF st = {} THEN 1
    ELSE (CHOOSE i \in {r.id : r \in st} : \A r \in st : r.id <= i) + 1

\* the INSERT of a new Connection at time t: first_seen and last_updated
\* take their default func.now()
Inserted(st, rec, t) ==
    [id |-> NextId(st), name |-> rec.name, occupation |-> rec.occupation,
     profile_url |-> rec.profile_url, first_seen |-> t, last_updated |-> t]

\* the flush of an existing row whose name and occupation were assigned: an
\* UPDATE is emitted only when a value changed, and only an UPDATE triggers
\* onupdate=func.now() of last_updated; first_seen and id are not assigned
Updated(row, rec, t) ==
    LET changed == row.name # rec.name \/ row.occupation # rec.occupation
    IN  [row EXCEPT !.name = rec.name, !.occupation = rec.occupation,
                    !.last_updated = IF changed THEN t ELSE @]

\* a mutant of RolledBack: the pending changes are kept
RolledBack_KeepsPending(before, pending) == pending

\* session.rollback() in the except block
RolledBack(before, pending) == before

\* "return False" of the except block
FailureReturn == FALSE

\* save_single_connection(connection_data, source_profile) at time t.
\* fault is what the database does to this call: "none", or it fails the
\* lookup or the commit.  The result: the committed rows, the value returned
\* and the step that raised.
SaveSingleConnection(st, rec, t, fault) ==
    LET existing == First(st, rec.profile_url)
        raised   == IF fault = "lookup" THEN "lookup"
                    ELSE IF existing = NoRow /\ ConstructorRaises THEN "construct"
                    ELSE IF fault = "commit" THEN "commit"
                    ELSE "none"
        pending  == IF raised \in {"lookup", "construct"} THEN st
                    ELSE IF existing # NoRow
                         THEN (st \ {existing}) \cup {Updated(existing, rec, t)}
                         ELSE st \cup {Inserted(st, rec, t)}
    IN  IF raised # "none"
           THEN [store |-> RolledBack(st, pending), ret |-> FailureReturn, raised |-> raised]
           ELSE [store |-> pending, ret |-> TRUE, raised |-> raised]

Names       == {<<"Ann">>, <<"Bob">>}
Occupations == {<<"Dev">>, <<"Ops">>}
Urls        == {<<"u1">>, <<"u2">>}
Faults      == {"none", "lookup", "commit"}

\* the records handed to save_single_connection in the store's own specification
Records == [name : Names, occupation : Occupations, profile_url : Urls]

\* what the database file holds when the program starts: nothing, or a row
\* from an earlier run
OldRow == [id |-> 1, name |-> <<"Ann">>, occupation |-> <<"Dev">>,
           profile_url |-> <<"u1">>, first_seen |-> 0, last_updated |-> 0]
PreStores == {{}, {OldRow}}

\* no parser running
ParseIdle ==
    /\ p_pc = "idle"
    /\ text = <<>>
    /\ parser = "none"
    /\ count_result = 0
    /\ parse_raised = FALSE

\* get_profile_connections not running
ExtractIdle ==
    /\ x_pc = "idle"
    /\ connections = <<>>
    /\ total_saved = 0
    /\ failed_saves = 0
    /\ current_page = 1
    /\ connections_count = 0
    /\ items_left = 0
    /\ extract_log = <<>>
    /\ save_log = <<>>
    /\ last_raised = "none"

StoreIdle ==
    /\ store = {}
    /\ now = 0
    /\ last_call = NoCall
    /\ prev_call = NoCall

StoreInit ==
    /\ store \in PreStores
    /\ now = 0
    /\ last_call = NoCall
    /\ prev_call = NoCall

\* the history record of one call
CallRecord(st, rec, t, out) ==
    [at |-> t, rec |-> rec, raised |-> out.raised, ret |-> out.ret,
     before |-> First(st, rec.profile_url),
     after |-> First(out.store, rec.profile_url),
     rows_before |-> Cardinality(st)]

\* one call of save_single_connection, at a time not before the last one
Upsert ==
    \E rec \in Records, t \in now..MaxClock, fault \in Faults :
        LET out == SaveSingleConnection(store, rec, t, fault)
        IN  /\ store' = out.store
            /\ now' = t
            /\ prev_call' = last_call
            /\ last_call' = CallRecord(store, rec, t, out)
            /\ UNCHANGED <<browserVars, navVars, scrollVars, extractVars, parseVars>>

InitStore == BrowserIdle /\ ScrollIdle /\ NavIdle /\ StoreInit /\ ExtractIdle /\ ParseIdle

NextStore == Upsert

SpecStore == InitStore /\ [][NextStore]_vars

(***************************************************************************)
(* get_profile_connections: the extraction loop                            *)
(***************************************************************************)
MaxItems   == 2      \* list items visited in one run
MaxPerPage == 2      \* elements of one result page
MaxPages   == 2      \* result pages of one run
MaxCount   == 2      \* the connections count read from the profile

Prefix == "View profile for "
Blank  == " "

\* an element handle, or None: query_selector's result
NoElement == [found |-> FALSE, text |-> <<>>]
Element(t) == [found |-> TRUE, text |-> t]

\* "await x.inner_text() if x else 'N/A'"
InnerTextOr(e) == IF e.found THEN e.text ELSE NA

\* str.replace('View profile for ', ''): every occurrence goes
RemovePrefix(t) == SelectSeq(t, LAMBDA c : c # Prefix)

\* str.strip(): leading and trailing whitespace goes
RECURSIVE Strip(_)
Strip(t) ==
    IF t = <<>> THEN t
    ELSE IF Head(t) = Blank THEN Strip(Tail(t))
    ELSE IF t[Len(t)] = Blank THEN Strip(SubSeq(t, 1, Len(t) - 1))
    ELSE t

\* str.split('?')[0]: the text before the first '?'
RECURSIVE BeforeQuery(_)
BeforeQuery(t) ==
    IF t = <<>> \/ Head(t) = "?" THEN <<>>
    ELSE <<Head(t)>> \o BeforeQuery(Tail(t))

\* the elements and attributes one list item can show
RawNames == {NoElement, Element(<<"Ann">>), Element(<<Prefix, "Ann">>),
             Element(<<"Bob", Blank>>)}
RawOccupations == {NoElement, Element(<<"Dev">>)}
\* the profile link: absent, or with an href, or with no href attribute
RawLinks == {[found |-> FALSE, href |-> TRUE, text |-> <<>>],
             [found |-> TRUE, href |-> TRUE, text |-> <<"u1">>],
             [found |-> TRUE, href |-> TRUE, text |-> <<"u1", "?", "t">>],
             [found |-> TRUE, href |-> FALSE, text |-> <<>>]}
RawItems == [name : RawNames, occupation : RawOccupations, link : RawLinks]

\* get_attribute('href') gave None, and None.split raises inside the item's try
ItemRaises(item) == item.link.found /\ ~item.link.href

\* the dict connection built from one element
ConnectionOf(item) ==
    LET name_text == Strip(RemovePrefix(InnerTextOr(item.name)))
        occupation_text == InnerTextOr(item.occupation)
        profile_url == IF item.link.found THEN item.link.text ELSE NA
    IN  [name |-> Strip(name_text),
         occupation |-> Strip(occupation_text),
         profile_url |-> IF profile_url # NA THEN BeforeQuery(profile_url) ELSE profile_url]

\* x in the list
InList(x, list) == \E i \in 1..Len(list) : list[i] = x

\* a mutant of Accepted: the sentinel test only
Accepted_NoDedup(c, list) == c.name # NA

\* "if connection not in connections and connection['name'] != 'N/A'"
Accepted(c, list) == ~InList(c, list) /\ c.name # NA

ExtractInit ==
    /\ x_pc = "loop_top"
    /\ connections = <<>>
    /\ total_saved = 0
    /\ failed_saves = 0
    /\ current_page = 1
    /\ connections_count \in 0..MaxCount
    /\ items_left = 0
    /\ extract_log = <<>>
    /\ save_log = <<>>
    /\ last_raised = "none"

\* the while test, the wait for the results and query_selector_all (no
\* element, or the wait timing out, ends the loop)
LoadPage ==
    /\ x_pc = "loop_top"
    /\ IF total_saved < connections_count
          THEN \E k \in 0..MaxPerPage :
                  /\ items_left' = k
                  /\ x_pc' = IF k = 0 THEN "done" ELSE "in_page"
          ELSE /\ items_left' = items_left
               /\ x_pc' = "done"
    /\ now' = now
    /\ UNCHANGED <<connections, total_saved, failed_saves, current_page,
                   connections_count, extract_log, save_log, last_raised,
                   browserVars, navVars, scrollVars, parseVars, store, last_call, prev_call>>

\* one pass of "for element in connection_elements", the call of
\* save_single_connection included
ProcessItem ==
    /\ x_pc = "in_page"
    /\ Len(extract_log) < MaxItems
    /\ \E item \in RawItems, fault \in Faults :
        LET c   == ConnectionOf(item)
            out == SaveSingleConnection(store, c, now, fault)
        IN  IF ItemRaises(item)
               THEN /\ fault = "none"
                    /\ UNCHANGED <<extract_log, connections, total_saved,
                                   failed_saves, save_log, last_raised, storeVars>>
            ELSE IF Accepted(c, connections)
               THEN /\ extract_log' = Append(extract_log, c)
                    /\ connections' = Append(connections, c)
                    /\ save_log' = Append(save_log, [rec |-> c, ret |-> out.ret])
                    /\ last_raised' = out.raised
                    /\ store' = out.store
                    /\ UNCHANGED <<now, last_call, prev_call>>
                    /\ total_saved' = IF out.ret THEN total_saved + 1 ELSE total_saved
                    /\ failed_saves' = IF out.ret THEN failed_saves ELSE failed_saves + 1
               ELSE /\ fault = "none"
                    /\ extract_log' = Append(extract_log, c)
                    /\ UNCHANGED <<connections, total_saved, failed_saves, save_log,
                                   last_raised, storeVars>>
    /\ items_left' = items_left - 1
    /\ x_pc' = IF items_left = 1 THEN "page_end" ELSE "in_page"
    /\ UNCHANGED <<current_page, connections_count, browserVars, navVars, scrollVars, parseVars>>

\* after the for loop: the Next button is absent, disabled, or clicked
NextPage ==
    /\ x_pc = "page_end"
    /\ \E button \in {"none", "disabled", "enabled"} :
        /\ button = "enabled" => current_page < MaxPages
        /\ IF button = "enabled"
              THEN current_page' = current_page + 1 /\ x_pc' = "loop_top"
              ELSE current_page' = current_page /\ x_pc' = "done"
    /\ UNCHANGED <<connections, total_saved, failed_saves, connections_count,
                   items_left, extract_log, save_log, last_raised,
                   browserVars, navVars, scrollVars, parseVars, storeVars>>

\* a run of the loop starts at any time of the clock; its saves fall within
\* one value of the clock (the timestamps are explored under SpecStore)
InitExtract ==
    /\ BrowserIdle /\ ScrollIdle /\ NavIdle /\ ExtractInit /\ ParseIdle
    /\ store \in PreStores
    /\ now = MaxClock
    /\ last_call = NoCall
    /\ prev_call = NoCall

NextExtract == LoadPage \/ ProcessItem \/ NextPage

SpecExtract == InitExtract /\ [][NextExtract]_vars

(***************************************************************************)
(* The connection-count parsers                                            *)
(***************************************************************************)
MaxLen == 4          \* characters of a header text

\* the characters of a header text: digits, the thousands separator, the
\* space, a letter and the plus sign
Chars == {"0", "1", "7", ",", " ", "C", "+"}

RECURSIVE TextsOfLen(_)
TextsOfLen(n) ==
    IF n = 0 THEN {<<>>}
    ELSE {Append(t, c) : t \in TextsOfLen(n - 1), c \in Chars}

Texts == UNION {TextsOfLen(n) : n \in 0..MaxLen}

\* str.isdigit
IsDigit(c) == c \in {"0", "1", "7"}

DigitValue(c) == IF c = "0" THEN 0 ELSE IF c = "1" THEN 1 ELSE 7

\* the value of a sequence of digits
RECURSIVE DecimalValue(_)
DecimalValue(d) ==
    IF d = <<>> THEN 0
    ELSE 10 * DecimalValue(SubSeq(d, 1, Len(d) - 1)) + DigitValue(d[Len(d)])

\* int(s) of a string of these characters: an optional sign, then digits and
\* nothing else; anything else is a ValueError
IntRaises(t) ==
    LET body == IF t # <<>> /\ Head(t) = "+" THEN Tail(t) ELSE t
    IN  body = <<>> \/ \E i \in 1..Len(body) : ~IsDigit(body[i])

IntValue(t) == DecimalValue(IF Head(t) = "+" THEN Tail(t) ELSE t)

\* text.split(" ")[0]: the text before the first space
RECURSIVE FirstField(_)
FirstField(t) ==
    IF t = <<>> \/ Head(t) = " " THEN <<>>
    ELSE <<Head(t)>> \o FirstField(Tail(t))

\* .replace(",", "")
WithoutCommas(t) == SelectSeq(t, LAMBDA c : c # ",")

\* Scrapper.extract_connection_count(text)
extract_connection_count(t) ==
    LET clean_number == WithoutCommas(FirstField(t))
    IN  IF IntRaises(clean_number) THEN 0 ELSE IntValue(clean_number)

\* get_profile_connections: int(''.join(filter(str.isdigit, count_text))),
\* inside a try whose handler leaves connections_count at its initial 0
ProfileHeaderCount(t) ==
    LET digits == SelectSeq(t, IsDigit)
    IN  IF IntRaises(digits) THEN 0 ELSE IntValue(digits)

ParseInit ==
    /\ p_pc = "ready"
    /\ text \in Texts
    /\ parser = "none"
    /\ count_result = 0
    /\ parse_raised = FALSE

\* get_connections() hands the header text to extract_connection_count
ExtractConnectionCount ==
    /\ p_pc = "ready"
    /\ count_result' = extract_connection_count(text)
    /\ parser' = "extract_connection_count"
    /\ parse_raised' = FALSE
    /\ p_pc' = "parsed"
    /\ UNCHANGED <<text, browserVars, navVars, scrollVars, storeVars, extractVars>>

\* get_profile_connections reads the count from the profile's header
ParseProfileHeader ==
    /\ p_pc = "ready"
    /\ count_result' = ProfileHeaderCount(text)
    /\ parser' = "get_profile_connections"
    /\ parse_raised' = FALSE
    /\ p_pc' = "parsed"
    /\ UNCHANGED <<text, browserVars, navVars, scrollVars, storeVars, extractVars>>

InitParse == BrowserIdle /\ ScrollIdle /\ NavIdle /\ StoreIdle /\ ExtractIdle /\ ParseInit

NextParse == ExtractConnectionCount \/ ParseProfileHeader

SpecParse == InitParse /\ [][NextParse]_vars

(***************************************************************************)
(* Scrapper.get_connections and the three functions that wait for the      *)
(* connections list.  human_like_behavior() is taken here by its outcome;  *)
(* its loop is the subject of Spec.                                        *)
(***************************************************************************)
\* one entry of n_log: a wait for '.search-results-container ul[role="list"]'
\* that ended, or a page.reload()
NavEvent(f, e) == [fn |-> f, ev |-> e]

\* the exception that leaves a function, by the step that raised it
ErrorOf(stop) ==
    IF stop = "goto" THEN "goto"
    ELSE IF stop = "button" THEN "button_timeout"
    ELSE IF stop = "scroll" THEN "scroll"
    ELSE IF stop = "reload" THEN "reload"
    ELSE IF stop \in {"list", "retry"} THEN "list_timeout"
    ELSE IF stop = "element" THEN "element"
    ELSE "none"

\* "if random.randint(1,100) % 3 == 0: ...from_anywhere() else: ...from_main()"
RouteOf(r) == IF r % 3 = 0 THEN "anywhere" ELSE "main"

\* how a function of get_connections ends: it returns to get_connections,
\* or its exception leaves get_connections for __main__'s except clause
NavEnds(stop, next_pc) ==
    IF stop = "none"
       THEN /\ n_pc' = next_pc
            /\ pc' = pc
            /\ error' = error
       ELSE /\ n_pc' = "out"
            /\ pc' = "raised"
            /\ error' = ErrorOf(stop)

\* get_connections(), up to the choice of the loader.  The page is the new
\* page of start(), so page.url is not the connections URL.
GetConnections ==
    /\ pc = "ready" /\ n_pc = "idle"
    /\ \E r \in 1..100 : n_route' = RouteOf(r)
    /\ n_pc' = "load"
    /\ UNCHANGED <<n_log, browserVars, scrollVars, storeVars, extractVars, parseVars>>

\* load_connection_page_from_main(): goto, wait for the button, hover, click,
\* scroll, wait for the list.  Nothing in it is guarded.  human_like_behavior()
\* returns or raises (stop = "scroll"), and either way its save_state() may
\* have written the file (saved).
LoadConnectionPageFromMain ==
    /\ pc = "ready" /\ n_pc = "load" /\ n_route = "main"
    /\ \E stop \in {"goto", "button", "scroll", "list", "none"}, saved \in BOOLEAN :
        /\ (saved => stop \in {"scroll", "list", "none"})
        /\ storage_file' = IF saved /\ SaveStateWrites(context) THEN "valid" ELSE storage_file
        /\ n_log' = IF stop = "list" THEN Append(n_log, NavEvent("main", "timeout"))
                    ELSE IF stop = "none" THEN Append(n_log, NavEvent("main", "ok"))
                    ELSE n_log
        /\ NavEnds(stop, "check")
    /\ UNCHANGED <<n_route, file_at_start, browser, context, page, ctx_kind,
                   close_calls, save_attempted,
                   scrollVars, storeVars, extractVars, parseVars>>

\* load_connection_page_from_anywhere(): goto, scroll, wait for the list.
\* Nothing in it is guarded.
LoadConnectionPageFromAnywhere ==
    /\ pc = "ready" /\ n_pc = "load" /\ n_route = "anywhere"
    /\ \E stop \in {"goto", "scroll", "list", "none"}, saved \in BOOLEAN :
        /\ (saved => stop \in {"scroll", "list", "none"})
        /\ storage_file' = IF saved /\ SaveStateWrites(context) THEN "valid" ELSE storage_file
        /\ n_log' = IF stop = "list" THEN Append(n_log, NavEvent("anywhere", "timeout"))
                    ELSE IF stop = "none" THEN Append(n_log, NavEvent("anywhere", "ok"))
                    ELSE n_log
        /\ NavEnds(stop, "check")
    /\ UNCHANGED <<n_route, file_at_start, browser, context, page, ctx_kind,
                   close_calls, save_attempted,
                   scrollVars, storeVars, extractVars, parseVars>>

\* check_if_connection_page(): scroll, wait for the list; on any exception of
\* that wait: page.reload() and one more wait, neither of them guarded
CheckIfConnectionPage ==
    /\ pc = "ready" /\ n_pc = "check"
    /\ \E stop \in {"scroll", "reload", "retry", "none"},
          first_ok \in BOOLEAN, saved \in BOOLEAN :
        /\ (stop \in {"reload", "retry"} => ~first_ok)
        /\ (stop = "scroll" => first_ok)
        /\ storage_file' = IF saved /\ SaveStateWrites(context) THEN "valid" ELSE storage_file
        /\ n_log' =
              IF stop = "scroll" THEN n_log
              ELSE IF first_ok THEN Append(n_log, NavEvent("check", "ok"))
              ELSE IF stop = "reload"
                 THEN n_log \o <<NavEvent("check", "timeout"),
                                 NavEvent("check", "reload_raised")>>
              ELSE n_log \o <<NavEvent("check", "timeout"),
                              NavEvent("check", "reload"),
                              NavEvent("check", IF stop = "retry" THEN "timeout" ELSE "ok")>>
        /\ NavEnds(stop, "header")
    /\ UNCHANGED <<n_route, file_at_start, browser, context, page, ctx_kind,
                   close_calls, save_attempted,
                   scrollVars, storeVars, extractVars, parseVars>>

\* the rest of get_connections(): the header, the loop over the elements
\* (an element without the profile link raises), the count, the return.
\* __main__ then takes len() of the returned int, and its except clause
\* catches the TypeError.
ReadHeader ==
    /\ pc = "ready" /\ n_pc = "header"
    /\ \E stop \in {"element", "none"} :
        /\ n_pc' = "out"
        /\ pc' = IF stop = "none" THEN "returned" ELSE "raised"
        /\ error' = IF stop = "none" THEN "len" ELSE ErrorOf(stop)
    /\ UNCHANGED <<n_route, n_log, storage_file, file_at_start, browser, context, page,
                   ctx_kind, close_calls, save_attempted,
                   scrollVars, storeVars, extractVars, parseVars>>

InitNav == BrowserInit /\ ScrollIdle /\ NavIdle /\ StoreIdle /\ ExtractIdle /\ ParseIdle

NextNav ==
    \/ Start
    \/ GetConnections
    \/ LoadConnectionPageFromMain
    \/ LoadConnectionPageFromAnywhere
    \/ CheckIfConnectionPage
    \/ ReadHeader
    \/ Close

SpecNav == InitNav /\ [][NextNav]_vars

(***************************************************************************)
(* __main__ of linkedin_scrapper.py: start, scroll, close                  *)
(***************************************************************************)
Init == BrowserInit /\ ScrollIdle /\ NavIdle /\ StoreIdle /\ ExtractIdle /\ ParseIdle

Next == Start \/ BeginScroll \/ ScrollCycle \/ Close

Spec == Init /\ [][Next]_vars

(***************************************************************************)
(* Claims about PersistentBrowser and the scroll loop, checked under Spec  *)
(***************************************************************************)
ResourceState(r) == IF r = "page" THEN page ELSE IF r = "context" THEN context ELSE browser

\* C1: once close() has returned or raised, save_state() was attempted and
\* every resource that was open (page, context, browser) has had its close()
\* called, whichever of the earlier steps failed.
C1_CloseReleasesAll ==
    pc = "closed" =>
        /\ save_attempted
        /\ \A r \in Resources : ResourceState(r) # "None" => r \in close_calls

\* C2: the loop never runs more than 20 cycles, and when the height strictly
\* increased in every cycle the loop has stopped after the 20th cycle without
\* all_loaded being set.
C2_ScrollCeiling ==
    /\ cycles <= max_scroll_attempts
    /\ (monotone /\ cycles = max_scroll_attempts /\ error = "none")
          => (pc # "scrolling" /\ ~all_loaded)

Stagnant3 == Len(eq_hist) = 3 /\ \A i \in 1..3 : eq_hist[i]

C9_StartContext ==
    pc # "new" =>
        /\ file_at_start = "missing" =>
              (ctx_kind = "anonymous" /\ page # "None" /\ error # "start")
        /\ file_at_start = "valid" =>
              (ctx_kind = "restored" /\ page # "None" /\ error # "start")
        /\ file_at_start = "corrupt" =>
              /\ ctx_kind = "none" /\ context = "None" /\ page = "None"
              /\ (pc = "raised" => error = "start")
              /\ pc \in {"raised", "closed"}

\* C9's case: start() found a corrupt file and raised, with the browser launched
C9_Witness ==
    pc = "raised" /\ file_at_start = "corrupt" /\ error = "start" /\ browser = "open"

\* C10: save_state() is invoked at the end of a scroll cycle exactly when the
\* cycle's number, counted from the start of the loop, is a multiple of 5.
C10_CheckpointEveryFifth ==
    cycles > 0 => (saved_now <=> cycles % 5 = 0)

(***************************************************************************)
(* Claims about save_single_connection, checked under SpecStore            *)
(***************************************************************************)
\* the database itself did not fail the call
NoDbFault(c) == c.raised \notin {"lookup", "commit"}

RowsOf(url) == {r \in store : r.profile_url = url}

\* C4: after two consecutive upserts of records with the same profile_url and
\* different occupations, the store holds exactly one row for that
\* profile_url, with the second occupation, and with the id and first_seen
\* the row had after the first upsert.
C4_SecondUpsertKeepsFirstSeen ==
    (/\ prev_call # NoCall /\ last_call # NoCall
     /\ NoDbFault(prev_call) /\ NoDbFault(last_call)
     /\ prev_call.rec.profile_url = last_call.rec.profile_url
     /\ prev_call.rec.occupation # last_call.rec.occupation)
    => /\ prev_call.after # NoRow
       /\ \E r \in store :
            /\ RowsOf(last_call.rec.profile_url) = {r}
            /\ r.occupation = last_call.rec.occupation
            /\ r.id = prev_call.after.id
            /\ r.first_seen = prev_call.after.first_seen

\* C5: a call with a record whose profile_url is not in the store inserts
\* exactly one new row with the record's name, occupation and profile_url,
\* first_seen and last_updated being the time of the call, and returns True.
C5_InsertsNewRow ==
    (last_call # NoCall /\ NoDbFault(last_call) /\ last_call.before = NoRow)
    => /\ last_call.ret = TRUE
       /\ Cardinality(store) = last_call.rows_before + 1
       /\ \E r \in store :
            /\ RowsOf(last_call.rec.profile_url) = {r}
            /\ r.name = last_call.rec.name
            /\ r.occupation = last_call.rec.occupation
            /\ r.first_seen = last_call.at
            /\ r.last_updated = last_call.at

(***************************************************************************)
(* Claims about the extraction loop, checked under SpecExtract             *)
(***************************************************************************)
\* C6: a call of save_single_connection in which the lookup, the row
\* construction or the commit raised returns False and leaves the committed
\* rows exactly as they were; the loop counts it in failed_saves, not in
\* total_saved, and goes on with the items of the page.
C6_FailedSaveRollsBack ==
    [][ (/\ Len(save_log') = Len(save_log) + 1
         /\ last_raised' # "none")
        => /\ save_log'[Len(save_log')].ret = FALSE
           /\ store' = store
           /\ failed_saves' = failed_saves + 1
           /\ total_saved' = total_saved
           /\ x_pc' \in {"in_page", "page_end"} ]_vars

\* C6's case: a save that succeeded, then a commit that failed on the existing
\* row, with an item of the page still to come
C6_Witness ==
    /\ Len(save_log) = 2
    /\ save_log[1].ret = TRUE
    /\ save_log[2].ret = FALSE /\ last_raised = "commit"
    /\ failed_saves = 1 /\ total_saved = 1
    /\ x_pc = "in_page"

SaveCount(c) == Cardinality({i \in DOMAIN save_log : save_log[i].rec = c})

\* C7: within one run, save_single_connection is invoked exactly once for
\* every (name, occupation, profile_url) dict that was extracted, however
\* often it was extracted, and never for a dict whose name is "N/A".
C7_SavedExactlyOnce ==
    /\ \A i \in DOMAIN extract_log :
          SaveCount(extract_log[i]) = IF extract_log[i].name = NA THEN 0 ELSE 1
    /\ \A j \in DOMAIN save_log : save_log[j].rec.name # NA

\* C7's case: the same dict extracted twice, the second time on a later page
C7_Witness ==
    /\ Len(extract_log) = 2
    /\ extract_log[1] = extract_log[2]
    /\ extract_log[1].name # NA
    /\ current_page = 2 /\ items_left = 0 /\ x_pc = "page_end"
    /\ SaveCount(extract_log[1]) = 1

(***************************************************************************)
(* Claims about the connection-count parsers, checked under SpecParse      *)
(***************************************************************************)
\* the integer formed by the digits of a text, 0 when it has none
DigitsOnly(t) == DecimalValue(SelectSeq(t, IsDigit))

\* C8: for every header text the parser returns the integer formed by the
\* text's digits, all other characters stripped, and 0 when the text is empty
\* or has no digit, without raising.
C8_CountIsDigitsOfText ==
    p_pc = "parsed" => (~parse_raised /\ count_result = DigitsOnly(text))

(***************************************************************************)
(* Further claims about the scroll loop (Spec), save_single_connection     *)
(* (SpecStore) and the extraction loop (SpecExtract)                       *)
(***************************************************************************)
\* C12: a call of save_single_connection that finds a row for the record's
\* profile_url leaves that row's last_updated at the time of the call, also
\* when the record's name and occupation are the stored ones.
C12_UpdateStampsLastUpdated ==
    (last_call # NoCall /\ NoDbFault(last_call) /\ last_call.before # NoRow)
    => /\ last_call.after # NoRow
       /\ last_call.after.last_updated = last_call.at

\* the number of unchanged cycles at the end of the recorded history
RECURSIVE TrailingUnchanged(_)
TrailingUnchanged(h) ==
    IF h = <<>> \/ ~h[Len(h)] THEN 0
    ELSE 1 + TrailingUnchanged(SubSeq(h, 1, Len(h) - 1))

\* C13: all_loaded is set only when the height equalled the previous cycle's
\* height in each of the last 3 cycles; after a cycle that changed the height
\* the counter is 0 and last_height is the new height; and the counter is the
\* number of unchanged cycles since the last change, never a sum across one.
C13_NeverLoadedEarly ==
    /\ all_loaded => Stagnant3
    /\ (cycles > 0 /\ ~eq_hist[Len(eq_hist)])
          => (scroll_attempts = 0 /\ last_height = prev_height)
    /\ scroll_attempts = TrailingUnchanged(eq_hist)
    /\ last_height = prev_height

\* C13's case: the loop ended with all_loaded after an unchanged cycle, a
\* change, and then three unchanged cycles
C13_Witness ==
    /\ all_loaded /\ pc = "loaded"
    /\ cycles = 5
    /\ scroll_attempts = 3

\* C14: every record handed to save_single_connection has a profile_url
\* that is not "N/A", so no two records with different names are looked up
\* and written under the key "N/A".
C14_SavedUrlIsNotSentinel ==
    /\ \A j \in DOMAIN save_log : save_log[j].rec.profile_url # NA
    /\ \A i, j \in DOMAIN save_log :
          save_log[i].rec.name # save_log[j].rec.name
             => ~(save_log[i].rec.profile_url = NA /\ save_log[j].rec.profile_url = NA)

(***************************************************************************)
(* Claims about the waits for the connections list, checked under SpecNav  *)
(***************************************************************************)
\* the entry i of n_log is the first wait of its function, not a retry
FirstWait(i) ==
    /\ n_log[i].ev \in {"ok", "timeout"}
    /\ (i = 1 \/ n_log[i - 1].ev # "reload")

\* C11: every wait for the connections list that times out, in any of the
\* three functions, is followed by one page reload and one retry of the wait
\* in the same function, and the timeout reaches the caller only when that
\* retry timed out as well.
C11_TimeoutReloadsAndRetriesOnce ==
    /\ \A i \in DOMAIN n_log :
          (FirstWait(i) /\ n_log[i].ev = "timeout")
             => /\ i + 1 \in DOMAIN n_log
                /\ n_log[i + 1].fn = n_log[i].fn
                /\ n_log[i + 1].ev \in {"reload", "reload_raised"}
                /\ n_log[i + 1].ev = "reload"
                      => /\ i + 2 \in DOMAIN n_log
                         /\ n_log[i + 2].fn = n_log[i].fn
                         /\ n_log[i + 2].ev \in {"ok", "timeout"}
                         /\ (i + 3 \in DOMAIN n_log => n_log[i + 3].ev # "reload")
    /\ error = "list_timeout"
          => /\ Len(n_log) >= 3
             /\ n_log[Len(n_log) - 2].ev = "timeout"
             /\ n_log[Len(n_log) - 1].ev = "reload"
             /\ n_log[Len(n_log)].ev = "timeout"

====
